---- MODULE Spec2Model ----
(***************************************************************************)
(* PandaPal: the host application (App.tsx) and the game session component *)
(* (GameSession) as a state machine.                                       *)
(*                                                                         *)
(* One action is one browser event: a click, the continuation of an        *)
(* awaited promise, or a timer callback.  An action carries the React      *)
(* re-render and the effects that follow the handler's state updates.      *)
(* A handler invoked by a click reads the state of the latest render; a    *)
(* timer callback reads the values its closure captured when the timer     *)
(* was scheduled, which the timer record carries.                          *)
(***************************************************************************)
EXTENDS Integers, Sequences, FiniteSets, Bags, TLC

\* ------------------------------------------------------------------ bounds
\* handleSelectLevel calls in one run
MaxSelect == 3
\* longest item list handed to the queue builder on its own
MaxQItems == 4
\* repeated calls of handleNext after completion
MaxAgain == 2
\* clicks on the replay (speaker) button in one run
MaxReplay == 1
\* generateSpeech calls in flight at one time
MaxFetch == 2

\* words the content generator may return, in the order it returns them
WordList == <<"Cat", "Dog", "Bird", "Fish", "Frog", "Duck">>

\* the item lists generateLessonContent returns when a session is played
Lessons == {<<"Cat">>, <<"Cat", "Dog">>}

\* ------------------------------------------------------------------ values
MENU == "MENU"
LOADING == "LOADING"
GAME == "GAME"
VICTORY == "VICTORY"

LEARN == "LEARN"
LISTEN_FIND == "LISTEN_FIND"
WORD_MATCH == "WORD_MATCH"

\* null, for currentLevel, selectedOption and isCorrect
Null == "null"
\* isCorrect === true / isCorrect === false
IsTrue == "true"
IsFalse == "false"

Min(a, b) == IF a < b THEN a ELSE b

\* ------------------------------------------------------------------ state
VARIABLES
    state,          \* App: AppState
    currentLevel,   \* App: the selected level or Null
    vocabList,      \* App: the items handed to GameSession
    totalXP,        \* App
    lastScore,      \* App
    pendingLoads,   \* generateLessonContent calls awaited by handleSelectLevel
    nSelect,        \* number of handleSelectLevel calls so far
    sid,            \* identity of the GameSession instance (counts mounts)
    gameQueue,      \* GameSession: useMemo over items
    currentStep,    \* GameSession state
    selectedOption, \* GameSession state
    isCorrect,      \* GameSession state
    combo,          \* GameSession state
    score,          \* GameSession state
    nCorrect,       \* history: correct answers the mounted instance accepted
    timers,         \* pending setTimeout callbacks of handleOptionClick
    exited,         \* history: instances whose Exit button was clicked
    lastOp,         \* history: the event handled last
    autoPlay,       \* pending 500 ms timers of the effect keyed on currentStep
    audioCache,     \* GameSession state: the words that have a buffer
    isAudioLoading, \* GameSession state
    fetches,        \* generateSpeech calls awaited by playWord (a bag)
    nReplay,        \* number of replay clicks so far
    lastAudio       \* history: the playWord request handled last and what it
                    \* sent to playAudioBuffer

hostVars == <<state, currentLevel, vocabList, totalXP, lastScore, pendingLoads, nSelect>>
sessVars ==
    <<sid, gameQueue, currentStep, selectedOption, isCorrect, combo, score, nCorrect>>
compAudio == <<autoPlay, audioCache, isAudioLoading>>
envAudio == <<fetches, nReplay, lastAudio>>
vars == <<hostVars, sessVars, timers, exited, lastOp, compAudio, envAudio>>

\* ------------------------------------------------------ queue construction
\* the outcomes of Math.random() during one build: an order for each sort
Perms(n) == {p \in [1..n -> 1..n] : \A i, j \in 1..n : p[i] = p[j] => i = j}

\* d orders the candidate distractors, o the options, r the review block;
\* one draw of each per build
RandomDraws(n) ==
    [d : Perms(IF n > 0 THEN n - 1 ELSE 0), o : Perms(Min(n, 4)), r : Perms(n)]

\* s.sort(() => 0.5 - Math.random()), p the order the comparisons produced
SortRandom(s, p) == [i \in 1..Len(s) |-> s[p[i]]]

\* items.filter(i => i.word !== item.word)
FilterOthers(items, item) ==
    LET other(i) == i # item IN SelectSeq(items, other)

\* .slice(0, 3)
Slice3(s) == SubSeq(s, 1, Min(3, Len(s)))

Distractors(items, item, rnd) ==
    Slice3(SortRandom(FilterOthers(items, item), rnd.d))

\* faulty variant: the target left out of the options
Options_NoTarget(items, item, rnd) == Distractors(items, item, rnd)

\* [item, ...distractors].sort(() => 0.5 - Math.random())
Options(items, item, rnd) ==
    SortRandom(<<item>> \o Distractors(items, item, rnd), rnd.o)

Challenge(t, item, opts) == [type |-> t, target |-> item, options |-> opts]

\* the first items.forEach: LEARN then LISTEN_FIND for each item
RECURSIVE LearnPractice(_, _, _)
LearnPractice(items, k, rnd) ==
    IF k = 0 THEN <<>>
    ELSE LearnPractice(items, k - 1, rnd)
         \o <<Challenge(LEARN, items[k], <<>>),
              Challenge(LISTEN_FIND, items[k], Options(items, items[k], rnd))>>

\* the second items.forEach: one WORD_MATCH for each item
RECURSIVE ReviewQueue(_, _, _)
ReviewQueue(items, k, rnd) ==
    IF k = 0 THEN <<>>
    ELSE ReviewQueue(items, k - 1, rnd)
         \o <<Challenge(WORD_MATCH, items[k], Options(items, items[k], rnd))>>

\* faulty variant: the review block put in front
BuildQueue_ReviewFirst(items, rnd) ==
    SortRandom(ReviewQueue(items, Len(items), rnd), rnd.r)
    \o LearnPractice(items, Len(items), rnd)

\* return [...queue, ...reviewQueue.sort(() => 0.5 - Math.random())]
BuildQueue(items, rnd) ==
    LearnPractice(items, Len(items), rnd)
    \o SortRandom(ReviewQueue(items, Len(items), rnd), rnd.r)

\* ------------------------------------------------------------ derived
\* App renders <GameSession> when state === GAME && currentLevel
Mounted == state = GAME /\ currentLevel # Null

\* gameQueue[currentStep], undefined past the end
HasChallenge == currentStep < Len(gameQueue)
CurrentChallenge == gameQueue[currentStep + 1]

\* ------------------------------------------------------------ handler parts
\* faulty variant: no guard against a second click
BlocksClick_Never(ic) == FALSE

\* if (isCorrect !== null) return
BlocksClick(ic) == ic # Null

\* setCombo(c => c + 1)
ComboAfterCorrect(c) == c + 1

\* faulty variant: the combo survives a wrong answer
ComboAfterWrong_Kept(c) == c

\* setCombo(0)
ComboAfterWrong(c) == 0

\* faulty variant: one point per combo instead of two
ScoreAfterCorrect_Single(s, c) == s + 10 + c

\* setScore(s => s + 10 + combo * 2)
ScoreAfterCorrect(s, c) == s + 10 + c * 2

\* the 1000 ms callback: setSelectedOption(null); setIsCorrect(null)
SelectedAfterRetry == Null
\* faulty variant: isCorrect is not cleared
IsCorrectAfterRetry_Stuck == IsFalse
IsCorrectAfterRetry == Null

\* currentStep < gameQueue.length - 1
HasNextStep(step, qlen) == step < qlen - 1

\* faulty variant: the step index is not incremented
StepAfterNext_Stay(s) == s

\* setCurrentStep(s => s + 1)
StepAfterNext(s) == s + 1

Timer(kind) ==
    [kind |-> kind, sid |-> sid, step |-> currentStep, score |-> score,
     qlen |-> Len(gameQueue)]

RemoveAt(s, i) == SubSeq(s, 1, i - 1) \o SubSeq(s, i + 1, Len(s))

\* setTimeout(() => playWord(wordToPlay), 500) set by the effect of instance id
\* after a render with currentStep = step: wordToPlay is the target of that
\* render, playWord closes over the audioCache of that render
AutoPlayTimer(id, step, queue, cache) ==
    [sid |-> id, step |-> step, word |-> queue[step + 1].target, cache |-> cache]

\* history record of a playWord request: the word, the instance and step it
\* was made for, and what reached playAudioBuffer in the event handled last
Audio(word, id, step, out) == [word |-> word, sid |-> id, step |-> step, out |-> out]

\* history record of the event handled last; for a call of onComplete: the
\* value passed, whether the calling instance was still mounted and the score
\* it held, the closure of the call and how often it was repeated
Op(name, id) ==
    [op |-> name, sid |-> id, val |-> 0, live |-> FALSE, had |-> 0,
     step |-> 0, qlen |-> 0, again |-> 0]

\* ------------------------------------------------------------ init
Init ==
    /\ state = MENU
    /\ currentLevel = Null
    /\ vocabList = <<>>
    /\ totalXP = 0
    /\ lastScore = 0
    /\ pendingLoads = 0
    /\ nSelect = 0
    /\ sid = 0
    /\ gameQueue = <<>>
    /\ currentStep = 0
    /\ selectedOption = Null
    /\ isCorrect = Null
    /\ combo = 0
    /\ score = 0
    /\ nCorrect = 0
    /\ timers = <<>>
    /\ exited = {}
    /\ lastOp = Op("init", 0)
    /\ autoPlay = {}
    /\ audioCache = {}
    /\ isAudioLoading = FALSE
    /\ fetches = EmptyBag
    /\ nReplay = 0
    /\ lastAudio = Audio(Null, 0, 0, "none")

\* React drops the state updates of an unmounted instance: of its pending
\* callbacks only those that call onComplete can still act
Inert(t) == t.kind = "retry" \/ HasNextStep(t.step, t.qlen)
StillActs(t) == ~(t.sid = sid /\ Inert(t))

\* the component is unmounted: its state is gone, the cleanup of the effect
\* clears the 500 ms timer
Unmount(ts) ==
    /\ timers' = SelectSeq(ts, StillActs)
    /\ autoPlay' = {}
    /\ audioCache' = {}
    /\ isAudioLoading' = FALSE
    /\ gameQueue' = <<>>
    /\ currentStep' = 0
    /\ selectedOption' = Null
    /\ isCorrect' = Null
    /\ combo' = 0
    /\ score' = 0
    /\ nCorrect' = 0
    /\ UNCHANGED sid

\* a new instance: useState initial values, useMemo builds the queue, the
\* effect of the first render finds selectedOption and isCorrect null already
\* and sets the 500 ms timer for the first challenge
Mount(items) ==
    /\ sid' = sid + 1
    /\ \E rnd \in RandomDraws(Len(items)) :
        /\ gameQueue' = BuildQueue(items, rnd)
        /\ autoPlay' = {AutoPlayTimer(sid + 1, 0, BuildQueue(items, rnd), {})}
    /\ audioCache' = {}
    /\ isAudioLoading' = FALSE
    /\ currentStep' = 0
    /\ selectedOption' = Null
    /\ isCorrect' = Null
    /\ combo' = 0
    /\ score' = 0
    /\ nCorrect' = 0

\* the mounted instance receives a new items array: useMemo runs again, the
\* effect keyed on currentStep does not
NewItems(items) ==
    /\ \E rnd \in RandomDraws(Len(items)) : gameQueue' = BuildQueue(items, rnd)
    /\ UNCHANGED <<sid, currentStep, selectedOption, isCorrect, combo, score, nCorrect>>
    /\ UNCHANGED compAudio

\* ------------------------------------------------------------ App
\* handleSelectLevel up to the await
SelectLevel ==
    /\ state = MENU
    /\ nSelect < MaxSelect
    /\ nSelect' = nSelect + 1
    /\ currentLevel' = "level"
    /\ state' = LOADING
    /\ pendingLoads' = pendingLoads + 1
    /\ lastOp' = Op("select", sid)
    /\ UNCHANGED <<vocabList, totalXP, lastScore, sessVars, timers, exited>>
    /\ UNCHANGED <<compAudio, envAudio>>

\* generateLessonContent throws: handleSelectLevel ends at the await
LoadThrows ==
    /\ pendingLoads > 0
    /\ pendingLoads' = pendingLoads - 1
    /\ lastOp' = Op("loadThrows", sid)
    /\ UNCHANGED <<state, currentLevel, vocabList, totalXP, lastScore, nSelect,
                   sessVars, timers, exited, compAudio, envAudio>>

\* generateLessonContent returns []: items.length > 0 fails
LoadEmpty ==
    /\ pendingLoads > 0
    /\ pendingLoads' = pendingLoads - 1
    /\ state' = MENU
    /\ Unmount(timers)
    /\ lastOp' = Op("loadEmpty", sid)
    /\ UNCHANGED <<currentLevel, vocabList, totalXP, lastScore, nSelect, exited>>
    /\ UNCHANGED envAudio

\* generateLessonContent returns items: setVocabList(items); setState(GAME)
LoadItems ==
    /\ pendingLoads > 0
    /\ pendingLoads' = pendingLoads - 1
    /\ \E items \in Lessons :
        /\ vocabList' = items
        /\ state' = GAME
        /\ IF currentLevel = Null THEN UNCHANGED <<sessVars, compAudio>>
           ELSE IF Mounted THEN NewItems(items)
           ELSE Mount(items)
    /\ lastOp' = Op("loadItems", sid')
    /\ UNCHANGED <<currentLevel, totalXP, lastScore, nSelect, timers, exited>>
    /\ UNCHANGED envAudio

\* faulty variant: lastScore accumulates like totalXP
HandleGameComplete_Accumulate(reported, op, ts) ==
    /\ lastScore' = lastScore + reported
    /\ totalXP' = totalXP + reported
    /\ state' = VICTORY
    /\ Unmount(ts)
    /\ lastOp' = op
    /\ UNCHANGED <<currentLevel, vocabList, pendingLoads, nSelect, exited>>
    /\ UNCHANGED envAudio

\* handleGameComplete(reported), called as onComplete by an instance; op is
\* the history record of the call, ts the callbacks still pending
HandleGameComplete(reported, op, ts) ==
    /\ lastScore' = reported
    /\ totalXP' = totalXP + reported
    /\ state' = VICTORY
    /\ Unmount(ts)
    /\ lastOp' = op
    /\ UNCHANGED <<currentLevel, vocabList, pendingLoads, nSelect, exited>>
    /\ UNCHANGED envAudio

\* returnToMenu
ReturnToMenu ==
    /\ state' = MENU
    /\ currentLevel' = Null
    /\ vocabList' = <<>>
    /\ Unmount(timers)
    /\ UNCHANGED <<totalXP, lastScore, pendingLoads, nSelect>>
    /\ UNCHANGED envAudio

\* the Play More button of the victory screen
PlayMore ==
    /\ state = VICTORY
    /\ ReturnToMenu
    /\ lastOp' = Op("playMore", sid)
    /\ UNCHANGED exited

\* ------------------------------------------------------------ GameSession
\* the Exit button, rendered with the current challenge
Exit ==
    /\ Mounted /\ HasChallenge
    /\ ReturnToMenu
    /\ exited' = exited \cup {sid}
    /\ lastOp' = Op("exit", sid)

\* the effect keyed on currentStep, run after the step became s: the cleanup
\* of the previous run clears its timer, then, with a current challenge, the
\* answer state is reset and a new 500 ms timer is set
StepEffect(s) ==
    IF s < Len(gameQueue)
    THEN /\ selectedOption' = Null /\ isCorrect' = Null
         /\ autoPlay' = {AutoPlayTimer(sid, s, gameQueue, audioCache)}
    ELSE /\ UNCHANGED <<selectedOption, isCorrect>>
         /\ autoPlay' = {}

CompleteOp(step, sc, qlen, id, n) ==
    [op |-> "complete", sid |-> id, val |-> sc, live |-> Mounted /\ id = sid,
     had |-> IF Mounted /\ id = sid THEN score ELSE 0,
     step |-> step, qlen |-> qlen, again |-> n]

\* handleNext as closed over a render with currentStep = step, score = sc and a
\* queue of qlen challenges, run for instance id; name and n go to the history
\* record, ts are the callbacks still pending
HandleNext(step, sc, qlen, id, name, n, ts) ==
    IF HasNextStep(step, qlen)
    THEN /\ IF Mounted /\ id = sid
            THEN /\ currentStep' = StepAfterNext(currentStep)
                 /\ StepEffect(currentStep')
            ELSE UNCHANGED <<currentStep, selectedOption, isCorrect, autoPlay>>
         /\ lastOp' = Op(name, id)
         /\ timers' = ts
         /\ UNCHANGED <<hostVars, sid, gameQueue, combo, score, nCorrect, exited>>
         /\ UNCHANGED <<audioCache, isAudioLoading, envAudio>>
    ELSE HandleGameComplete(sc, CompleteOp(step, sc, qlen, id, n), ts)

\* the I Know It button of a LEARN challenge
ClickNext ==
    /\ Mounted /\ HasChallenge
    /\ CurrentChallenge.type = LEARN
    /\ HandleNext(currentStep, score, Len(gameQueue), sid, "next", 0, timers)

\* handleOptionClick(option)
HandleOptionClick(option) ==
    IF BlocksClick(isCorrect)
    THEN /\ lastOp' = Op("clickBlocked", sid)
         /\ UNCHANGED <<hostVars, sessVars, timers, exited, compAudio, envAudio>>
    ELSE /\ selectedOption' = option
         /\ IF option = CurrentChallenge.target
            THEN /\ isCorrect' = IsTrue
                 /\ combo' = ComboAfterCorrect(combo)
                 /\ score' = ScoreAfterCorrect(score, combo)
                 /\ nCorrect' = nCorrect + 1
                 /\ timers' = Append(timers, Timer("advance"))
                 /\ lastOp' = Op("correct", sid)
            ELSE /\ isCorrect' = IsFalse
                 /\ combo' = ComboAfterWrong(combo)
                 /\ score' = score
                 /\ nCorrect' = nCorrect
                 /\ timers' = Append(timers, Timer("retry"))
                 /\ lastOp' = Op("wrong", sid)
         /\ UNCHANGED <<hostVars, sid, gameQueue, currentStep, exited>>
         /\ UNCHANGED <<compAudio, envAudio>>

\* an option button of a LISTEN_FIND or WORD_MATCH challenge; the button is
\* disabled while isCorrect === true
ClickOption ==
    /\ Mounted /\ HasChallenge
    /\ CurrentChallenge.type # LEARN
    /\ \E i \in 1..Len(CurrentChallenge.options) :
        IF isCorrect = IsTrue
        THEN /\ lastOp' = Op("clickDisabled", sid)
             /\ UNCHANGED <<hostVars, sessVars, timers, exited, compAudio, envAudio>>
        ELSE HandleOptionClick(CurrentChallenge.options[i])

\* timers is in the order of the setTimeout calls.  A 1200 ms callback runs
\* after every callback set before it; a 1000 ms callback can only overtake
\* 1200 ms ones
MayFire(i) ==
    \A k \in 1..(i - 1) : timers[i].kind = "retry" /\ timers[k].kind = "advance"

\* the 1200 ms timer of a correct answer: handleNext of the render it was set in
AdvanceTimer ==
    \E i \in 1..Len(timers) :
        /\ timers[i].kind = "advance"
        /\ MayFire(i)
        /\ HandleNext(timers[i].step, timers[i].score, timers[i].qlen,
                      timers[i].sid, "advance", 0, RemoveAt(timers, i))

\* the 1000 ms timer of a wrong answer
RetryTimer ==
    \E i \in 1..Len(timers) :
        /\ timers[i].kind = "retry"
        /\ MayFire(i)
        /\ timers' = RemoveAt(timers, i)
        /\ IF Mounted /\ timers[i].sid = sid
           THEN selectedOption' = SelectedAfterRetry /\ isCorrect' = IsCorrectAfterRetry
           ELSE UNCHANGED <<selectedOption, isCorrect>>
        /\ lastOp' = Op("retry", timers[i].sid)
        /\ UNCHANGED <<hostVars, sid, gameQueue, currentStep, combo, score, nCorrect,
                       exited>>
        /\ UNCHANGED <<compAudio, envAudio>>

Next ==
    \/ SelectLevel
    \/ LoadThrows
    \/ LoadEmpty
    \/ LoadItems
    \/ PlayMore
    \/ Exit
    \/ ClickNext
    \/ ClickOption
    \/ AdvanceTimer
    \/ RetryTimer

Spec == Init /\ [][Next]_vars

\* handleNext called once more on the closure that reported completion
AdvanceAgain ==
    /\ lastOp.op = "complete"
    /\ lastOp.again < MaxAgain
    /\ HandleNext(lastOp.step, lastOp.val, lastOp.qlen, lastOp.sid, "advance",
                  lastOp.again + 1, timers)

NextAgain == Next \/ AdvanceAgain

SpecAgain == Init /\ [][NextAgain]_vars

\* the queue builder on its own: GameSession rendered first with each item list
QueueInit ==
    /\ state = GAME
    /\ currentLevel = "level"
    /\ \E n \in 0..Min(MaxQItems, Len(WordList)) : vocabList = SubSeq(WordList, 1, n)
    /\ totalXP = 0
    /\ lastScore = 0
    /\ pendingLoads = 0
    /\ nSelect = 1
    /\ sid = 1
    /\ gameQueue = <<>>
    /\ currentStep = 0
    /\ selectedOption = Null
    /\ isCorrect = Null
    /\ combo = 0
    /\ score = 0
    /\ nCorrect = 0
    /\ timers = <<>>
    /\ exited = {}
    /\ lastOp = Op("init", 1)
    /\ autoPlay = {}
    /\ audioCache = {}
    /\ isAudioLoading = FALSE
    /\ fetches = EmptyBag
    /\ nReplay = 0
    /\ lastAudio = Audio(Null, 1, 0, "none")

\* useMemo(() => ..., [items]) of the first render
QueueBuild ==
    /\ lastOp.op = "init"
    /\ \E rnd \in RandomDraws(Len(vocabList)) : gameQueue' = BuildQueue(vocabList, rnd)
    /\ lastOp' = Op("build", sid)
    /\ UNCHANGED <<hostVars, sid, currentStep, selectedOption, isCorrect, combo, score, nCorrect,
                   timers, exited, compAudio, envAudio>>

SpecQueue == QueueInit /\ [][QueueBuild]_vars

\* the browser runs every pending timer callback
FairSpec == Spec /\ WF_vars(AdvanceTimer) /\ WF_vars(RetryTimer)

\* ====================================================================
\* Audio: playWord, the 500 ms auto-play timer, the replay button
\* ====================================================================
\* if (audioCache[word])
InCache(cache, word) == word \in cache

\* faulty variant: the word is cached whatever generateSpeech returned
CacheAfterSpeech_Always(cache, word, buffer) == cache \cup {word}

\* faulty variant: a new buffer evicts the others
CacheAfterSpeech_Evict(cache, word, buffer) ==
    IF buffer # Null THEN {word} ELSE cache

\* if (buffer) setAudioCache(prev => ({ ...prev, [word]: buffer }))
CacheAfterSpeech(cache, word, buffer) ==
    IF buffer # Null THEN cache \cup {word} ELSE cache

\* if (buffer) playAudioBuffer(buffer)
SinkAfterSpeech(buffer) == IF buffer # Null THEN "fetched" ELSE "none"

\* a generateSpeech(word) call awaited by the playWord of instance id, made
\* while it showed step
Fetch(word, id, step) == [word |-> word, sid |-> id, step |-> step]

\* playWord(word) of a render of instance id whose audioCache was cache, up
\* to the await
PlayWord(word, cache, id, step) ==
    IF InCache(cache, word)
    THEN /\ lastAudio' = Audio(word, id, step, "cached")
         /\ lastOp' = Op("playCached", id)
         /\ UNCHANGED <<fetches, isAudioLoading>>
    ELSE /\ BagCardinality(fetches) < MaxFetch
         /\ isAudioLoading' = TRUE
         /\ fetches' = fetches (+) SetToBag({Fetch(word, id, step)})
         /\ lastAudio' = Audio(word, id, step, "none")
         /\ lastOp' = Op("fetch", id)

\* the 500 ms timer of the effect fires
AutoPlay ==
    \E t \in autoPlay :
        /\ autoPlay' = autoPlay \ {t}
        /\ PlayWord(t.word, t.cache, t.sid, t.step)
        /\ UNCHANGED <<hostVars, sessVars, timers, exited, audioCache, nReplay>>

\* the speaker button of a LEARN or LISTEN_FIND challenge
ClickReplay ==
    /\ Mounted /\ HasChallenge
    /\ CurrentChallenge.type \in {LEARN, LISTEN_FIND}
    /\ nReplay < MaxReplay
    /\ nReplay' = nReplay + 1
    /\ PlayWord(CurrentChallenge.target, audioCache, sid, currentStep)
    /\ UNCHANGED <<hostVars, sessVars, timers, exited, autoPlay, audioCache>>

\* playWord after the await: generateSpeech returned buffer (Null on failure)
SpeechReturns(f, buffer) ==
    /\ fetches' = fetches (-) SetToBag({f})
    /\ IF Mounted /\ f.sid = sid
       THEN /\ audioCache' = CacheAfterSpeech(audioCache, f.word, buffer)
            /\ isAudioLoading' = FALSE
       ELSE UNCHANGED <<audioCache, isAudioLoading>>
    /\ lastAudio' = Audio(f.word, f.sid, f.step, SinkAfterSpeech(buffer))
    /\ UNCHANGED <<hostVars, sessVars, timers, exited, autoPlay, nReplay>>

\* generateSpeech returns an AudioBuffer
SpeechResolves ==
    \E f \in BagToSet(fetches) :
        /\ SpeechReturns(f, "buffer")
        /\ lastOp' = Op("speechOk", f.sid)

\* generateSpeech returns null: no audio data, or the call threw
SpeechFails ==
    \E f \in BagToSet(fetches) :
        /\ SpeechReturns(f, Null)
        /\ lastOp' = Op("speechFail", f.sid)

\* the first level selection of a run
SelectFirst ==
    /\ nSelect = 0
    /\ SelectLevel

\* one play-through with audio: from the first level selection to the end of
\* its session, and what is still pending after it
NextAudio ==
    \/ SelectFirst
    \/ LoadThrows
    \/ LoadEmpty
    \/ LoadItems
    \/ PlayMore
    \/ Exit
    \/ ClickNext
    \/ ClickOption
    \/ AdvanceTimer
    \/ RetryTimer
    \/ AutoPlay
    \/ ClickReplay
    \/ SpeechResolves
    \/ SpeechFails

SpecAudio == Init /\ [][NextAudio]_vars

\* ====================================================================
\* Properties
\* ====================================================================
\* a step of the mounted instance that leaves it mounted
SameInstance == Mounted /\ Mounted' /\ sid' = sid

ClickOps == {"correct", "wrong", "clickBlocked", "clickDisabled"}
AdvanceOps == {"next", "advance", "complete"}

\* C1: the value a mounted session passes to onComplete is the score it holds
\* at that moment, the points of the final correct answer included.
C1_ReportsFinalScore ==
    (lastOp.op = "complete" /\ lastOp.live) => lastOp.val = lastOp.had

\* C2: onComplete is never called for an instance whose Exit button was clicked.
C2_NoReportAfterExit ==
    lastOp.op = "complete" => lastOp.sid \notin exited

\* C3: within a session the score changes only on a correct answer, and then
\* by exactly 10 + 2 * combo, combo being the value before the answer.
C3_ScoreLaw ==
    [][SameInstance =>
        IF lastOp'.op = "correct"
        THEN score' = score + 10 + 2 * combo
        ELSE score' = score]_vars

C3_Witness == Mounted /\ lastOp.op = "correct" /\ combo = 2 /\ score = 22

\* C4: a session starts with combo 0, an accepted wrong answer sets combo to 0,
\* an accepted correct answer adds exactly 1, and nothing else changes combo.
C4_ComboLaw ==
    [][/\ (Mounted' /\ sid' # sid) => combo' = 0
       /\ SameInstance =>
            CASE lastOp'.op = "wrong" -> combo' = 0
              [] lastOp'.op = "correct" -> combo' = combo + 1
              [] OTHER -> combo' = combo]_vars

C4_Witness == Mounted /\ lastOp.op = "wrong" /\ combo = 0 /\ score = 22

\* C5: a click on an option while isCorrect is set changes none of score,
\* combo, selectedOption, isCorrect, currentStep, and schedules no timer.
C5_DoubleSubmitNoOp ==
    [][(Mounted /\ isCorrect # Null /\ lastOp'.op \in ClickOps) =>
        UNCHANGED <<score, combo, selectedOption, isCorrect, currentStep, timers>>]_vars

C5_Witness == Mounted /\ lastOp.op = "clickBlocked" /\ isCorrect = IsFalse

\* C6: a wrong answer sets isCorrect to false at once and leaves score and
\* currentStep alone; its 1000 ms callback clears selectedOption and isCorrect,
\* again leaving score and currentStep alone.
C6_WrongThenRetry ==
    [][SameInstance =>
        /\ lastOp'.op = "wrong" =>
              isCorrect' = IsFalse /\ score' = score /\ currentStep' = currentStep
        /\ (lastOp'.op = "retry" /\ lastOp'.sid = sid) =>
              /\ selectedOption' = Null /\ isCorrect' = Null
              /\ score' = score /\ currentStep' = currentStep]_vars

C6_Witness ==
    Mounted /\ lastOp.op = "retry" /\ lastOp.sid = sid /\ currentStep = 3 /\ score = 10

\* C7: handleNext run for the mounted instance at a step with a successor moves
\* to exactly that successor, clears selectedOption and isCorrect and leaves
\* score and combo alone; at the last step it reports completion instead.
C7_AdvanceStep ==
    [][(Mounted /\ lastOp'.op \in AdvanceOps /\ lastOp'.sid = sid) =>
        IF currentStep + 1 < Len(gameQueue)
        THEN /\ Mounted' /\ sid' = sid
             /\ currentStep' = currentStep + 1
             /\ selectedOption' = Null /\ isCorrect' = Null
             /\ score' = score /\ combo' = combo
        ELSE lastOp'.op = "complete"]_vars


\* C8: after a correct answer at step i the 1200 ms callback runs once for it:
\* the session then is at step i + 1, or has completed if i was the last step;
\* until then the step does not move, and no step is skipped.
C8_AutoAdvanceOnce ==
    /\ \A s \in 1..MaxSelect : \A i \in 0..5 :
          (Mounted /\ sid = s /\ currentStep = i /\ isCorrect = IsTrue)
            ~> (~(Mounted /\ sid = s) \/ currentStep = i + 1)
    /\ [][(SameInstance /\ isCorrect = IsTrue /\ currentStep' # currentStep) =>
            /\ lastOp'.op = "advance"
            /\ currentStep' = currentStep + 1
            /\ isCorrect' = Null]_vars
    /\ [][(Mounted /\ lastOp'.op \in {"advance", "complete"} /\ lastOp'.sid = sid) =>
            /\ isCorrect = IsTrue
            /\ IF currentStep + 1 < Len(gameQueue)
               THEN SameInstance /\ currentStep' = currentStep + 1
               ELSE lastOp'.op = "complete"]_vars

C10_QueueShape ==
    (lastOp.op = "build" /\ Len(vocabList) >= 4) =>
        LET N == Len(vocabList) IN
        /\ Len(gameQueue) = 3 * N
        /\ \A i \in 0..(N - 1) :
              /\ gameQueue[2 * i + 1].type = LEARN
              /\ gameQueue[2 * i + 1].target = vocabList[i + 1]
              /\ gameQueue[2 * i + 2].type = LISTEN_FIND
              /\ gameQueue[2 * i + 2].target = vocabList[i + 1]
        /\ \A k \in (2 * N + 1)..(3 * N) : gameQueue[k].type = WORD_MATCH
        /\ \A i \in 1..N :
              Cardinality({k \in (2 * N + 1)..(3 * N) :
                              gameQueue[k].target = vocabList[i]}) = 1

\* a queue of 12 whose review block is not in input order
C10_Witness ==
    /\ lastOp.op = "build" /\ Len(vocabList) = 4 /\ Len(gameQueue) = 12
    /\ gameQueue[9].target = vocabList[3]
    /\ gameQueue[12].target = vocabList[1]

\* the words of a list of options
Words(opts) == {opts[i] : i \in 1..Len(opts)}

\* C11: in a queue built from N >= 4 items with unique words every
\* LISTEN_FIND and WORD_MATCH challenge has exactly 4 options with pairwise
\* distinct words, the target among them, and every LEARN challenge has no
\* options, whatever the random sorts produce.
C11_OptionsShape ==
    (lastOp.op = "build" /\ Len(vocabList) >= 4) =>
        \A k \in 1..Len(gameQueue) :
            IF gameQueue[k].type = LEARN
            THEN gameQueue[k].options = <<>>
            ELSE /\ Len(gameQueue[k].options) = 4
                 /\ Cardinality(Words(gameQueue[k].options)) = 4
                 /\ gameQueue[k].target \in Words(gameQueue[k].options)

\* a queue of 4 items whose first LISTEN_FIND lists its target last
C11_Witness ==
    /\ lastOp.op = "build"
    /\ Len(vocabList) = 4
    /\ gameQueue[2].type = LISTEN_FIND
    /\ gameQueue[2].options[4] = gameQueue[2].target
    /\ gameQueue[1].options = <<>>

\* C12: a result of fewer than 4 items never starts a session: the host is
\* in GAME only with at least 4 items, and no queue holds a scored challenge
\* with fewer than 4 options.
C12_NoShortSession ==
    /\ state = GAME => Len(vocabList) >= 4
    /\ \A k \in 1..Len(gameQueue) :
        gameQueue[k].type # LEARN => Len(gameQueue[k].options) = 4

\* C13: when generateLessonContent throws while the host is in LOADING, the
\* host eventually shows the level-selection MENU again.
C13_LoadFailureReturns ==
    (lastOp.op = "loadThrows" /\ state = LOADING) ~> (state = MENU)

\* C14: the auto-play timer of a step that was left, or of a session that
\* was exited, is cancelled: at any moment at most one auto-play timer is
\* pending, and it is the one of the mounted session's current step, for
\* that step's target word.
C14_OneAutoPlayForCurrentStep ==
    /\ Cardinality(autoPlay) <= 1
    /\ \A t \in autoPlay :
        /\ Mounted /\ HasChallenge
        /\ t.sid = sid /\ t.step = currentStep
        /\ t.word = CurrentChallenge.target

\* C15: a buffer fetched for a request reaches playAudioBuffer only if the
\* session that made the request is still mounted and still shows the step
\* the request was made on.
C15_NoStalePlayback ==
    [][(lastOp'.op = "speechOk" /\ lastAudio'.out # "none") =>
            /\ Mounted
            /\ lastAudio'.sid = sid
            /\ lastAudio'.step = currentStep]_vars

\* C16: entering a step (the first one included) sets an auto-play timer
\* exactly when the challenge of that step is LEARN or LISTEN_FIND; entering
\* a WORD_MATCH step sets none.
C16_AutoPlayOnlyLearnListen ==
    [][(/\ Mounted'
        /\ sid' # sid \/ currentStep' # currentStep
        /\ currentStep' < Len(gameQueue')) =>
            (autoPlay' # {} <=>
                gameQueue'[currentStep' + 1].type \in {LEARN, LISTEN_FIND})]_vars

\* C17: playWord(word), called by the timer or by the replay button while
\* the session's audioCache holds word, plays the cached buffer and does not
\* call generateSpeech.
C17_CachedNeverFetched ==
    [][(lastOp'.op \in {"fetch", "playCached"} /\ InCache(audioCache, lastAudio'.word)) =>
            /\ lastOp'.op = "playCached"
            /\ lastAudio'.out = "cached"
            /\ fetches' = fetches]_vars

\* the learner can submit an answer / can advance from a LEARN card
CanAnswer ==
    Mounted /\ HasChallenge /\ CurrentChallenge.type # LEARN /\ isCorrect = Null
CanAdvance == Mounted /\ HasChallenge /\ CurrentChallenge.type = LEARN

\* C18: when generateSpeech fails for a request, the audio cache is
\* unchanged, nothing reaches playAudioBuffer, the loading flag of the
\* requesting session is cleared, and host and session state (step, score,
\* combo, answer state, pending timers) are unchanged, so the learner can
\* answer and advance as before.
C18_SpeechFailureHarmless ==
    [][lastOp'.op = "speechFail" =>
            /\ audioCache' = audioCache
            /\ lastAudio'.out = "none"
            /\ (Mounted /\ lastAudio'.sid = sid) => isAudioLoading' = FALSE
            /\ UNCHANGED <<hostVars, sessVars, timers, autoPlay>>
            /\ CanAnswer' = CanAnswer
            /\ CanAdvance' = CanAdvance]_vars

\* a failed speech call of the mounted session on a step that awaits an answer
C18_Witness ==
    /\ lastOp.op = "speechFail"
    /\ Mounted /\ lastAudio.sid = sid
    /\ CanAnswer
    /\ audioCache = {}
    /\ lastAudio.word = "Cat"

\* C19: while a session is mounted its audio cache only grows, and every
\* buffer generateSpeech returns to it is stored under its word, also when
\* the step has moved on or another fetch of the same word is in flight.
C19_CacheOnlyGrows ==
    [][/\ SameInstance => audioCache \subseteq audioCache'
       /\ (lastOp'.op = "speechOk" /\ Mounted /\ lastAudio'.sid = sid) =>
            lastAudio'.word \in audioCache']_vars

\* a buffer stored after its step was left, a second fetch of the same word
\* still in flight, another word cached before
C19_Witness ==
    /\ lastOp.op = "speechOk"
    /\ Mounted /\ lastAudio.sid = sid
    /\ lastAudio.step < currentStep
    /\ audioCache = {"Cat", "Dog"}
    /\ \E f \in BagToSet(fetches) : f.word = lastAudio.word

\* the browser runs every pending timer callback and every generateSpeech
\* call returns, with a buffer or with null
FairSpecAudio ==
    /\ SpecAudio
    /\ WF_vars(AdvanceTimer) /\ WF_vars(RetryTimer) /\ WF_vars(AutoPlay)
    /\ WF_vars(SpeechResolves \/ SpeechFails)

\* the words of the lessons
LessonWords == UNION {Words(l) : l \in Lessons}

\* C20: requests for the same word fetch independently; when generateSpeech
\* succeeds for one of them its buffer is played and, in the mounted session,
\* cached; and a play request made on a step while the session's cache holds
\* the word is eventually followed by that word reaching playAudioBuffer for
\* a request of that session on that step, unless the session leaves the step.
C20_PlaysOnceSynthesized ==
    /\ [][lastOp'.op = "speechOk" =>
            /\ lastAudio'.out = "fetched"
            /\ (Mounted /\ lastAudio'.sid = sid) => lastAudio'.word \in audioCache']_vars
    /\ \A w \in LessonWords : \A s \in 1..MaxSelect : \A i \in 0..5 :
        (/\ lastOp.op \in {"fetch", "playCached"}
         /\ Mounted /\ sid = s
         /\ lastAudio = Audio(w, s, i, lastAudio.out)
         /\ w \in audioCache)
            ~> \/ \E out \in {"cached", "fetched"} : lastAudio = Audio(w, s, i, out)
               \/ ~(Mounted /\ sid = s /\ currentStep = i)

\* the learner clicks the option that is the target
ClickCorrect ==
    /\ Mounted /\ HasChallenge
    /\ CurrentChallenge.type # LEARN
    /\ isCorrect = Null
    /\ HandleOptionClick(CurrentChallenge.target)

\* one play-through by a learner who never clicks Exit (nor the speaker
\* button: the speech calls are those of the 500 ms timers)
NextPlay ==
    \/ SelectFirst
    \/ LoadThrows
    \/ LoadEmpty
    \/ LoadItems
    \/ PlayMore
    \/ ClickNext
    \/ ClickOption
    \/ AdvanceTimer
    \/ RetryTimer
    \/ AutoPlay
    \/ SpeechResolves
    \/ SpeechFails

\* the browser runs every pending answer timer; the learner keeps clicking
\* Next on a LEARN card and, whenever answers are accepted again and again,
\* eventually clicks the target.  Nothing is assumed about the audio events.
FairSpecPlay ==
    /\ Init /\ [][NextPlay]_vars
    /\ WF_vars(AdvanceTimer) /\ WF_vars(RetryTimer)
    /\ WF_vars(ClickNext) /\ SF_vars(ClickCorrect)

\* C21: a session whose learner never exits, advances every LEARN card and
\* eventually answers every scored challenge correctly moves through its
\* steps one by one and eventually reports completion, whatever the speech
\* calls do.
C21_SessionCompletes ==
    /\ Mounted ~> (state = VICTORY)
    /\ [][(SameInstance /\ currentStep' # currentStep) =>
            currentStep' = currentStep + 1]_vars

\* completion of a 6-step session reported after a wrong answer on the way
\* (combo broken) and with a speech call still in flight
C21_Witness ==
    /\ state = VICTORY
    /\ lastOp.op = "complete" /\ lastOp.step = 5 /\ lastOp.qlen = 6
    /\ lastScore < 36
    /\ BagCardinality(fetches) > 0

\* the scored challenges (LISTEN_FIND, WORD_MATCH) among the first n of q
ScoredBefore(q, n) ==
    Cardinality({k \in 1..Min(n, Len(q)) : q[k].type # LEARN})

\* the scored challenges the session has been on: those before the current
\* step and the current one once isCorrect is true
ScoredSoFar ==
    ScoredBefore(gameQueue, currentStep) + (IF isCorrect = IsTrue THEN 1 ELSE 0)

\* the sum over k = 0..m-1 of 10 + 2k
RECURSIVE MaxScore(_)
MaxScore(m) == IF m = 0 THEN 0 ELSE MaxScore(m - 1) + 10 + 2 * (m - 1)

\* C22: a session leaves a scored challenge (by a step change or by
\* completing) only after a correct answer to it, points are awarded only on
\* a scored challenge not yet answered correctly, and so the score is at most
\* the sum of 10 + 2k over the m correct answers so far, where m is the number
\* of scored challenges the session has passed or answered, m <= 2N.
C22_ScoreBound ==
    /\ [](Mounted =>
            /\ score <= MaxScore(nCorrect)
            /\ nCorrect = ScoredSoFar
            /\ nCorrect <= 2 * Len(vocabList))
    /\ [][(/\ Mounted /\ HasChallenge
           /\ CurrentChallenge.type # LEARN
           /\ \/ Mounted' /\ sid' = sid /\ currentStep' # currentStep
              \/ lastOp'.op = "complete" /\ lastOp'.sid = sid) =>
                isCorrect = IsTrue]_vars
    /\ [][(SameInstance /\ score' # score) =>
            /\ isCorrect = Null /\ isCorrect' = IsTrue
            /\ currentStep' = currentStep
            /\ CurrentChallenge.type # LEARN]_vars

\* C23: in a mounted session 0 <= currentStep <= queue length - 1, so the
\* current challenge is always defined.
C23_StepInRange ==
    Mounted => (0 <= currentStep /\ currentStep <= Len(gameQueue) - 1)

\* C24: onComplete is called only by the mounted session, while it shows the
\* last step of its queue with a correct answer recorded on it; the call
\* unmounts the session, so it is called at most once per session.
C24_CompleteOnceAtEnd ==
    [][lastOp'.op = "complete" =>
            /\ Mounted /\ lastOp'.sid = sid
            /\ currentStep = Len(gameQueue) - 1
            /\ isCorrect = IsTrue
            /\ ~Mounted']_vars

\* the speech calls of the mounted session that are in flight
Outstanding == {f \in BagToSet(fetches) : f.sid = sid}

\* C25: the loading flag of a mounted session is true exactly when at least
\* one of its speech calls is in flight.
C25_LoadingFlag ==
    Mounted => (isAudioLoading <=> Outstanding # {})

\* the answer timers (advance or retry) of the mounted session
AnswerTimers == {i \in 1..Len(timers) : timers[i].sid = sid}

\* C26: in a mounted session selectedOption is null exactly when isCorrect
\* is null, and at most one answer timer is pending, one exactly when
\* isCorrect is set.
C26_AnswerStateConsistent ==
    Mounted =>
        /\ selectedOption = Null <=> isCorrect = Null
        /\ Cardinality(AnswerTimers) <= 1
        /\ Cardinality(AnswerTimers) = 1 <=> isCorrect # Null

====
